---- MODULE Spec2Model ----
(***************************************************************************)
(* One run of CloudinaryUploader.upload (src/src/async_filter.js) on top   *)
(* of Uploader.bulkUpload / Uploader.chunkUpload (src/src/uploader.js).    *)
(*                                                                         *)
(* Node runs the program on one thread.  A step of the model is either an  *)
(* I/O event (a stream event, an HTTP response, a completed log append)    *)
(* or a continuation that the previous step queued as a microtask.  The    *)
(* microtask queue is drained before the next I/O event is delivered, so   *)
(* every I/O action is guarded by ~MicroPending.                           *)
(***************************************************************************)
EXTENDS Integers, Sequences, FiniteSets, TLC

(* ------------------------------ bounds -------------------------------- *)

\* number of candidate files handed to upload()
NumCandidates == 3

\* uploader.js:18 sets 10; the model runs the same pool with a smaller cap
MAX_CONCURRENT_UPLOADS == 2

\* uploader.js:21 sets 5000000 bytes; the model reads files in smaller chunks
CHUNK_UPLOAD_SIZE == 2

\* largest file size, in bytes, of a run that follows one file's chunks
MaxFileSize == 5

\* largest file size, in bytes, of a run of the whole pool
MaxPoolFileSize == 1

\* milliseconds the clock may advance during a run that follows the clock
MaxClock == 2

\* number of files of a run that follows the clock
SessionFiles == 2

(* ------------------------- program constants -------------------------- *)

BAD_REQUEST == 400

NOT_FOUND == 404

CONFLICT == 409

Files == 1..NumCandidates

\* worker slots: bulkUpload creates numRequests of them
Workers == 1..NumCandidates

\* outcomes of one axios.post: an HTTP status, or -1 for no response at all
Outcomes == {200, 401, NOT_FOUND, -1}

\* axios resolves on a 2xx status and rejects on any other
IsSuccess(r) == r \in 200..299

VARIABLES
    upc,                \* position of upload(): start, list, filter, bulk, waitEndWrite, closing, resolved, rejected
    errorFileHandle,    \* "unset", "null" (no errorFilename), "open", "closed"
    ignoreFileExistCheck,
    verdict,            \* per candidate: the validator's answer (an input)
    pred,               \* per candidate: state of its asyncFilter predicate
    filterArr,          \* asyncFilter's result array, in completion order
    writeCount,
    appends,            \* per file: log appends issued / done / failed
    emitted,            \* per file: notifications emitted, by kind
    aborted,            \* uploadController.signal.aborted
    cursor,             \* entries taken from fileGen so far
    wpc,                \* per worker: idle, loop, await, settled, exited
    wfile,              \* per worker: the file it is uploading (0: none)
    taken,              \* per file: times fileGen.next() has yielded it
    calls,              \* per file: chunkUpload invocations
    up,                 \* per file: the state of its chunkUpload
    fsize,              \* per file: its size on disk, in bytes (an input)
    proc,               \* "ok", "warned" or "crashed" (unhandled rejection)
    clsErr,             \* error handed to #isCriticalError (classification spec)
    clsRes,             \* its verdict: "none", "critical", "noncritical"
    now                 \* the reading of the system clock, in milliseconds

vars == <<upc, errorFileHandle, ignoreFileExistCheck, verdict, pred, filterArr,
          writeCount, appends, emitted, aborted, cursor, wpc, wfile, taken, calls,
          up, fsize, proc, clsErr, clsRes, now>>

filterVars == <<verdict, pred, filterArr>>

poolVars == <<aborted, cursor, wpc, wfile, taken, calls, up, fsize>>

clsVars == <<clsErr, clsRes>>

(* ------------------------------ errors -------------------------------- *)

NoError == [kind |-> "none", httpCode |-> 0]

FileOpenError == [kind |-> "FileOpenError", httpCode |-> 0]

FileUploadError == [kind |-> "FileUploadError", httpCode |-> 0]

ServerResponseError(httpCode) == [kind |-> "ServerResponseError", httpCode |-> httpCode]

\* #isCriticalError without `case NOT_FOUND:`
isCriticalError_NotFoundCritical(error) ==
    IF error.kind = "FileOpenError" THEN FALSE
    ELSE IF error.kind = "ServerResponseError"
            /\ error.httpCode \in {BAD_REQUEST, CONFLICT} THEN FALSE
    ELSE TRUE

isCriticalError(error) ==
    IF error.kind = "FileOpenError" THEN FALSE
    ELSE IF error.kind = "ServerResponseError"
            /\ error.httpCode \in {BAD_REQUEST, NOT_FOUND, CONFLICT} THEN FALSE
    ELSE TRUE

(* ------------------------------ helpers ------------------------------- *)

Min(a, b) == IF a < b THEN a ELSE b

\* st, size, pos: the read stream and its file; uid, fileSize, end, reqs: the
\* variables of chunkUpload; promise, by, error: the promise it returns
NoUpload == [st |-> "none", size |-> 0, pos |-> 0, uid |-> 0, fileSize |-> 0,
             end |-> 0, promise |-> "none", by |-> 0, error |-> NoError,
             reqs |-> <<>>]

NoAppends == [issued |-> 0, done |-> 0, failed |-> 0]

NoEvents == [success |-> 0, error |-> 0, critical |-> 0]

\* numRequests without the Math.min
numRequests_NoCap == Len(filterArr)

\* bulkUpload's numRequests
numRequests == Min(MAX_CONCURRENT_UPLOADS, Len(filterArr))

InFlight(f) == {i \in 1..Len(up[f].reqs) : up[f].reqs[i].st = "inflight"}

\* a continuation of bulkUpload is queued as a microtask
WorkerMicro ==
    \/ \E w \in Workers : wpc[w] \in {"loop", "settled"}
    \/ upc = "bulk" /\ \A w \in Workers : wpc[w] \in {"idle", "exited"}

\* a continuation is queued: Node runs it before it delivers any I/O event
\* (abort() rejects the requests in flight at once, without an I/O event)
MicroPending ==
    \/ WorkerMicro
    \/ aborted /\ \E f \in Files : InFlight(f) # {}

\* an unhandled rejection ends the process once the microtask queue is
\* drained: no I/O event is delivered after that
Running == proc # "crashed"

(* ------------------------------- Init --------------------------------- *)

Verdicts == {"valid", "invalid", "not allowed", "throws"}

\* upload() is called: nothing has run yet
Init ==
    /\ upc = "start"
    /\ errorFileHandle = "unset"
    /\ ignoreFileExistCheck \in BOOLEAN
    /\ verdict \in [Files -> Verdicts]
    /\ pred = [f \in Files |-> "idle"]
    /\ filterArr = <<>>
    /\ writeCount = 0
    /\ appends = [f \in Files |-> NoAppends]
    /\ emitted = [f \in Files |-> NoEvents]
    /\ aborted = FALSE
    /\ cursor = 0
    /\ wpc = [w \in Workers |-> "idle"]
    /\ wfile = [w \in Workers |-> 0]
    /\ taken = [f \in Files |-> 0]
    /\ calls = [f \in Files |-> 0]
    /\ up = [f \in Files |-> NoUpload]
    /\ fsize = [f \in Files |-> 0]
    /\ proc = "ok"
    /\ clsErr = NoError
    /\ clsRes = "none"
    /\ now = 0

(* --------------------- upload(): log file, filter --------------------- *)

\* a rejected promise nobody handles: Node warns or ends the process,
\* depending on its unhandled-rejections mode
Unhandled(p) ==
    IF proc = "ok" THEN p \in {"warned", "crashed"} ELSE p = proc

\* logError up to its await: the counter goes up, the append is issued;
\* without a handle `(undefined).then` throws a TypeError before any append
LogThrows == errorFileHandle = "null"

logError(f) ==
    /\ writeCount' = writeCount + 1
    /\ appends' = IF LogThrows THEN appends
                  ELSE [appends EXCEPT ![f].issued = @ + 1]

Emit(kind, f) ==
    emitted' = [emitted EXCEPT ![f][kind] = @ + 1]

\* upload(): errorFileHandle = open(errorFilename, 'w' | 'wx'), or null
OpenErrorFile ==
    /\ upc = "start"
    /\ \E how \in {"null", "open", "throws"} :
          IF how = "throws"
          THEN upc' = "rejected" /\ UNCHANGED errorFileHandle
          ELSE upc' = "list" /\ errorFileHandle' = how
    /\ UNCHANGED <<ignoreFileExistCheck, filterVars, writeCount, appends, emitted,
                   poolVars, proc, clsVars, now>>

\* upload(): specificFiles, or readdir(imgDir), which may throw;
\* asyncFilter then starts the predicate of every candidate
ListFiles ==
    /\ upc = "list"
    /\ \E listed \in BOOLEAN :
          IF listed
          THEN upc' = "filter" /\ pred' = [f \in Files |-> "validating"]
          ELSE upc' = "rejected" /\ UNCHANGED pred
    /\ UNCHANGED <<errorFileHandle, ignoreFileExistCheck, verdict, filterArr, writeCount,
                   appends, emitted, poolVars, proc, clsVars, now>>

\* a predicate of asyncFilter rejected: Promise.all rejects, upload() throws
PredicateThrows == IF upc = "filter" THEN "rejected" ELSE upc

\* the predicate reports nothing for a file the validator calls INVALID
Reports_OnlyThrows(imgRes) == imgRes = "throws"

\* the predicate reports a file: isValidImage rejected (.catch), or its
\* answer is INVALID
Reports(imgRes) == imgRes \in {"throws", "invalid"}

\* the filter predicate of candidate f, from the validator's answer on
Validate(f) ==
    /\ Running /\ ~MicroPending
    /\ pred[f] = "validating"
    /\ LET imgRes == verdict[f] IN
       IF Reports(imgRes)
       THEN /\ Emit("error", f)
            /\ logError(f)
            /\ pred' = [pred EXCEPT ![f] = IF LogThrows THEN "threw" ELSE "logging"]
            /\ upc' = IF LogThrows THEN PredicateThrows ELSE upc
            /\ UNCHANGED filterArr
       ELSE IF imgRes # "valid"
       THEN /\ pred' = [pred EXCEPT ![f] = "dropped"]
            /\ UNCHANGED <<upc, filterArr, writeCount, appends, emitted>>
       ELSE IF ignoreFileExistCheck
       THEN /\ pred' = [pred EXCEPT ![f] = "kept"]
            /\ filterArr' = Append(filterArr, f)
            /\ UNCHANGED <<upc, writeCount, appends, emitted>>
       ELSE \* `{...apiOptions}`: apiOptions is declared nowhere, ReferenceError
            /\ pred' = [pred EXCEPT ![f] = "threw"]
            /\ upc' = PredicateThrows
            /\ UNCHANGED <<filterArr, writeCount, appends, emitted>>
    /\ UNCHANGED <<errorFileHandle, ignoreFileExistCheck, verdict, poolVars, proc, clsVars, now>>

\* bulkUpload is called with the filtered names: numRequests workers start
StartBulk ==
    /\ upc = "filter"
    /\ \A f \in Files : pred[f] \in {"kept", "dropped"}
    /\ upc' = "bulk"
    /\ wpc' = [w \in Workers |-> IF w <= numRequests THEN "loop" ELSE "idle"]
    /\ UNCHANGED <<errorFileHandle, ignoreFileExistCheck, filterVars, writeCount,
                   appends, emitted, aborted, cursor, wfile, taken, calls, up, fsize, proc,
                   clsVars, now>>

(* ---------------------- Uploader.chunkUpload -------------------------- *)

\* `const XUniqueUploadId = +new Date()`: the clock reading as a number
XUniqueUploadId(date) == date

\* resolve(...) / reject(...): only the first call settles the promise
Settle(u, how, by, error) ==
    IF u.promise = "pending"
    THEN [u EXCEPT !.promise = how, !.by = by, !.error = error]
    ELSE u

\* the worker awaiting f's promise gets its .then/.catch queued
Wake(f, u) ==
    wpc' = [w \in Workers |->
              IF wfile[w] = f /\ wpc[w] = "await"
                 /\ up[f].promise = "pending" /\ u.promise # "pending"
              THEN "settled" ELSE wpc[w]]

\* `end = chunk.byteLength` in place of `+=`
ChunkEnd_Overwrites(end, byteLength) == byteLength

\* `end += chunk.byteLength`
ChunkEnd(end, byteLength) == end + byteLength

\* 'open': the stream is open on a file of some size; stat(url) is started
StreamOpen(f) ==
    /\ Running /\ ~MicroPending
    /\ up[f].st = "opening"
    /\ up' = [up EXCEPT ![f].size = fsize[f],
                        ![f].st = IF fsize[f] = 0 THEN "ended" ELSE "flowing"]
    /\ UNCHANGED <<upc, errorFileHandle, ignoreFileExistCheck, filterVars, writeCount,
                   appends, emitted, aborted, cursor, wpc, wfile, taken, calls, fsize, proc, clsVars, now>>

\* 'error': reject(new FileOpenError(...))
StreamError(f) ==
    /\ Running /\ ~MicroPending
    /\ up[f].st \in {"opening", "flowing"}
    /\ LET u == Settle([up[f] EXCEPT !.st = "errored"], "rejected", 0, FileOpenError)
       IN  up' = [up EXCEPT ![f] = u] /\ Wake(f, u)
    /\ UNCHANGED <<upc, errorFileHandle, ignoreFileExistCheck, filterVars, writeCount,
                   appends, emitted, aborted, cursor, wfile, taken, calls, fsize, proc, clsVars, now>>

\* `fileSize = (await stat(url)).size` completes
StatDone(f) ==
    /\ Running /\ ~MicroPending
    /\ up[f].fileSize # up[f].size
    /\ up' = [up EXCEPT ![f].fileSize = up[f].size]
    /\ UNCHANGED <<upc, errorFileHandle, ignoreFileExistCheck, filterVars, writeCount,
                   appends, emitted, aborted, cursor, wpc, wfile, taken, calls, fsize, proc, clsVars, now>>

\* 'data': offsets, Content-Range header, axios.post issued
Data(f) ==
    /\ Running /\ ~MicroPending
    /\ up[f].st = "flowing"
    /\ LET u == up[f]
           byteLength == Min(CHUNK_UPLOAD_SIZE, u.size - u.pos)
           start == u.end
           end == ChunkEnd(u.end, byteLength)
           req == [start |-> start, end |-> end, total |-> u.fileSize,
                   uid |-> u.uid, st |-> "inflight"]
       IN  up' = [up EXCEPT ![f].end = end,
                            ![f].reqs = Append(@, req),
                            ![f].pos = @ + byteLength,
                            ![f].st = IF u.pos + byteLength >= u.size
                                      THEN "ended" ELSE "flowing"]
    /\ UNCHANGED <<upc, errorFileHandle, ignoreFileExistCheck, filterVars, writeCount,
                   appends, emitted, aborted, cursor, wpc, wfile, taken, calls, fsize, proc, clsVars, now>>

\* the .then / .catch of axios.post for request i of file f; r is the HTTP
\* status, or -1 when there is no response (network, timeout, abort)
Response(f, i, r) ==
    /\ ~WorkerMicro
    /\ i \in InFlight(f)
    /\ IF aborted THEN r = -1 ELSE Running
    /\ LET u0 == up[f]
           u1 == [u0 EXCEPT !.reqs[i].st = IF IsSuccess(r) THEN "ok" ELSE "failed"]
           u == IF IsSuccess(r)
                THEN (IF u0.end >= u0.fileSize THEN Settle(u1, "resolved", i, NoError)
                      ELSE u1)
                ELSE IF r = -1 THEN Settle(u1, "rejected", i, FileUploadError)
                ELSE Settle(u1, "rejected", i, ServerResponseError(r))
       IN  up' = [up EXCEPT ![f] = u] /\ Wake(f, u)
    /\ UNCHANGED <<upc, errorFileHandle, ignoreFileExistCheck, filterVars, writeCount,
                   appends, emitted, aborted, cursor, wfile, taken, calls, fsize, proc, clsVars, now>>

(* ----------------------- Uploader.bulkUpload -------------------------- *)

\* the while condition without `!signal?.aborted`
LoopContinues_IgnoresSignal(done) == ~done

\* a worker that gives up once an upload of the batch has failed
LoopContinues_UntilError(done) ==
    ~done /\ ~aborted /\ \A f \in Files : up[f].promise # "rejected"

\* the while condition of a worker, after fileGen.next()
LoopContinues(done) == ~done /\ ~aborted

\* a cursor that every worker reads from the start
NextCursor_Stuck(c) == c

\* the generator hands out the next entry of filenames
NextCursor(c) == c + 1

\* a worker evaluates its loop condition: it starts chunkUpload on the next
\* filename, or leaves the loop and resolves
WorkerLoop(w) ==
    /\ wpc[w] = "loop"
    /\ \A v \in Workers : v < w => wpc[v] # "loop"
    /\ LET done == cursor >= Len(filterArr)
           f == IF done THEN 0 ELSE filterArr[cursor + 1]
       IN  /\ cursor' = IF done THEN cursor ELSE NextCursor(cursor)
           /\ taken' = IF done THEN taken ELSE [taken EXCEPT ![f] = @ + 1]
           /\ IF LoopContinues(done)
              THEN /\ wpc' = [wpc EXCEPT ![w] = "await"]
                   /\ wfile' = [wfile EXCEPT ![w] = f]
                   /\ calls' = [calls EXCEPT ![f] = @ + 1]
                   /\ up' = [up EXCEPT ![f] = [NoUpload EXCEPT !.st = "opening",
                                                               !.promise = "pending",
                                                               !.uid = XUniqueUploadId(now)]]
              ELSE /\ wpc' = [wpc EXCEPT ![w] = "exited"]
                   /\ wfile' = [wfile EXCEPT ![w] = 0]
                   /\ UNCHANGED <<calls, up>>
    /\ UNCHANGED <<upc, errorFileHandle, ignoreFileExistCheck, filterVars, writeCount,
                   appends, emitted, aborted, fsize, proc, clsVars, now>>

\* the callback's test without `!uploadController.signal.aborted`
HandlesError_AfterAbort(error, signalAborted) == error # NoError

\* `if (error && !uploadController.signal.aborted)`
HandlesError(error, signalAborted) == error # NoError /\ ~signalAborted

\* upload()'s callback, run by the .then / .catch of the worker of file f
Callback(w) ==
    /\ wpc[w] = "settled"
    /\ LET f == wfile[w]
           error == IF up[f].promise = "rejected" THEN up[f].error ELSE NoError
       IN  IF HandlesError(error, aborted)
           THEN /\ IF isCriticalError(error)
                   THEN aborted' = TRUE /\ Emit("critical", f)
                   ELSE aborted' = aborted /\ Emit("error", f)
                /\ logError(f)
                /\ IF LogThrows THEN Unhandled(proc') ELSE proc' = proc
           ELSE /\ Emit("success", f)
                /\ UNCHANGED <<aborted, writeCount, appends, proc>>
    /\ wpc' = [wpc EXCEPT ![w] = "loop"]
    /\ UNCHANGED <<upc, errorFileHandle, ignoreFileExistCheck, filterVars, cursor,
                   wfile, taken, calls, up, fsize, clsVars, now>>

\* closing without the `if (writeCount > 0)` wait
MustWait_Never(count) == FALSE

\* `if (writeCount > 0)`: wait for END_WRITE before closing
MustWait(count) == count > 0

\* Promise.allSettled(uploaders) resolves; upload()'s .then runs
PoolSettled ==
    /\ upc = "bulk"
    /\ \A w \in Workers : wpc[w] \in {"idle", "exited"}
    /\ upc' = IF MustWait(writeCount) THEN "waitEndWrite" ELSE "closing"
    /\ UNCHANGED <<errorFileHandle, ignoreFileExistCheck, filterVars, writeCount,
                   appends, emitted, poolVars, proc, clsVars, now>>

(* ------------------------ log appends, close -------------------------- *)

Pending(f) == appends[f].issued - appends[f].done - appends[f].failed

\* END_WRITE emitted after every completed append
LastWrite_Every(count) == TRUE

\* `if (--writeCount === 0)`: the completed append was the last one
LastWrite(count) == count = 0

\* appendFile settles: its .then decrements writeCount and emits END_WRITE
\* at zero; a failed append skips the .then and rejects logError
AppendDone(f, ok) ==
    /\ Running /\ ~MicroPending
    /\ Pending(f) > 0
    /\ IF ok
       THEN /\ appends' = [appends EXCEPT ![f].done = @ + 1]
            /\ writeCount' = writeCount - 1
            /\ upc' = IF LastWrite(writeCount - 1) /\ upc = "waitEndWrite" THEN "closing" ELSE upc
            /\ pred' = [pred EXCEPT ![f] = IF @ = "logging" THEN "dropped" ELSE @]
            /\ proc' = proc
       ELSE /\ appends' = [appends EXCEPT ![f].failed = @ + 1]
            /\ writeCount' = writeCount
            /\ IF pred[f] = "logging"
               THEN /\ pred' = [pred EXCEPT ![f] = "threw"]
                    /\ upc' = PredicateThrows
                    /\ proc' = proc
               ELSE /\ Unhandled(proc')
                    /\ UNCHANGED <<pred, upc>>
    /\ UNCHANGED <<errorFileHandle, ignoreFileExistCheck, verdict, filterArr, emitted,
                   poolVars, clsVars, now>>

\* `await errorFileHandle?.close()`, then upload() returns
CloseDone ==
    /\ Running /\ ~MicroPending
    /\ upc = "closing"
    /\ errorFileHandle' = IF errorFileHandle = "open" THEN "closed" ELSE errorFileHandle
    /\ upc' = "resolved"
    /\ UNCHANGED <<ignoreFileExistCheck, filterVars, writeCount, appends, emitted,
                   poolVars, proc, clsVars, now>>

(* --------------------------- specifications --------------------------- *)

\* upload() up to the call of bulkUpload
NextFilter ==
    \/ OpenErrorFile
    \/ ListFiles
    \/ \E f \in Files : Validate(f)
    \/ \E f \in Files, ok \in BOOLEAN : AppendDone(f, ok)
    \/ StartBulk

\* bulkUpload, its callback, and the rest of upload()
NextPool ==
    \/ StartBulk
    \/ \E w \in Workers : WorkerLoop(w)
    \/ \E w \in Workers : Callback(w)
    \/ PoolSettled
    \/ \E f \in Files : StreamOpen(f)
    \/ \E f \in Files : StreamError(f)
    \/ \E f \in Files : StatDone(f)
    \/ \E f \in Files : Data(f)
    \/ \E f \in Files, i \in 1..MaxFileSize, r \in Outcomes : Response(f, i, r)
    \/ \E f \in Files, ok \in BOOLEAN : AppendDone(f, ok)
    \/ CloseDone

\* the state in which upload() calls bulkUpload once the filtering pass has
\* kept the candidates 1..n, whose sizes are at most maxSize
Handoff(n, maxSize) ==
    /\ upc = "filter"
    /\ errorFileHandle \in {"null", "open"}
    /\ ignoreFileExistCheck = TRUE
    /\ verdict = [f \in Files |-> IF f <= n THEN "valid" ELSE "not allowed"]
    /\ filterArr = [i \in 1..n |-> i]
    /\ pred = [f \in Files |-> IF f <= n THEN "kept" ELSE "dropped"]
    /\ writeCount = 0
    /\ appends = [f \in Files |-> NoAppends]
    /\ emitted = [f \in Files |-> NoEvents]
    /\ aborted = FALSE
    /\ cursor = 0
    /\ wpc = [w \in Workers |-> "idle"]
    /\ wfile = [w \in Workers |-> 0]
    /\ taken = [f \in Files |-> 0]
    /\ calls = [f \in Files |-> 0]
    /\ up = [f \in Files |-> NoUpload]
    /\ fsize \in {s \in [Files -> 0..maxSize] : \A f \in Files : f > n => s[f] = 0}
    /\ proc = "ok"
    /\ clsRes = "none"
    /\ now = 0

\* a batch of any length, of files of at most one chunk
InitPool == clsErr = NoError /\ \E n \in 0..NumCandidates : Handoff(n, MaxPoolFileSize)

\* a batch of one file, of any size
InitChunk == clsErr = NoError /\ Handoff(1, MaxFileSize)

\* a batch of files of at most one chunk, started at clock reading 0
InitSession == clsErr = NoError /\ Handoff(SessionFiles, MaxPoolFileSize)

\* the system clock advances by a millisecond
Tick ==
    /\ now < MaxClock
    /\ now' = now + 1
    /\ UNCHANGED <<upc, errorFileHandle, ignoreFileExistCheck, filterVars, writeCount,
                   appends, emitted, poolVars, proc, clsVars>>

\* the pool while time passes
NextSession == NextPool \/ Tick

\* the callback hands an error to #isCriticalError
Classify ==
    /\ clsRes = "none"
    /\ clsErr # NoError
    /\ clsRes' = IF isCriticalError(clsErr) THEN "critical" ELSE "noncritical"
    /\ UNCHANGED <<upc, errorFileHandle, ignoreFileExistCheck, filterVars, writeCount,
                   appends, emitted, poolVars, proc, clsErr, now>>

\* statuses axios turns into an error that carries a response
ErrorStatuses == (100..599) \ (200..299)

\* the errors chunkUpload rejects with, the base class, and anything else
Errors ==
    {FileOpenError, FileUploadError, [kind |-> "FileError", httpCode |-> 0],
     [kind |-> "Error", httpCode |-> 0]}
        \cup {ServerResponseError(c) : c \in ErrorStatuses}

InitClassify ==
    /\ Handoff(0, 0)
    /\ errorFileHandle = "open"

Spec == Init /\ [][NextFilter]_vars

SpecClassify ==
    /\ \E e \in Errors : InitClassify /\ clsErr = e
    /\ [][Classify]_vars

SpecPool == InitPool /\ [][NextPool]_vars

SpecChunk == InitChunk /\ [][NextPool]_vars

SpecSession == InitSession /\ [][NextSession]_vars

(* ------------------------------ claims -------------------------------- *)

\* the filenames handed to bulkUpload
Queue == {filterArr[i] : i \in 1..Len(filterArr)}

\* chunkUpload calls whose promise has not settled
Unsettled == {f \in Files : up[f].promise = "pending"}

\* bulkUpload's promise has resolved
PoolResolved == upc \in {"waitEndWrite", "closing", "resolved"}

\* nothing is left to happen in f's transfer: no stream event, no response
Quiet(f) == up[f].st \in {"ended", "errored"} /\ InFlight(f) = {}

\* upload()'s callback has run for f
Notified(f) == emitted[f].success + emitted[f].error + emitted[f].critical > 0

NonFatal(error) ==
    \/ error.kind = "FileOpenError"
    \/ error.kind = "ServerResponseError" /\ error.httpCode \in {400, 404, 409}

EndedFatal(f) == up[f].promise = "rejected" /\ ~NonFatal(up[f].error)

EndedNonFatal(f) == up[f].promise = "rejected" /\ NonFatal(up[f].error)

RECURSIVE Sum(_, _)
Sum(fn, S) ==
    IF S = {} THEN 0
    ELSE LET x == CHOOSE y \in S : TRUE IN fn[x] + Sum(fn, S \ {x})

Total(kind) == Sum([f \in Files |-> emitted[f][kind]], Files)

\* C1: at any moment of a bulkUpload run the number of chunkUpload calls
\* that have started and not settled is at most min(cap, number of filenames)
C1_ConcurrencyCap ==
    Cardinality(Unsettled) <= Min(MAX_CONCURRENT_UPLOADS, Len(filterArr))

\* a batch longer than the cap with cap-many uploads unsettled at once
C1_Witness ==
    /\ Len(filterArr) > MAX_CONCURRENT_UPLOADS
    /\ Cardinality(Unsettled) = MAX_CONCURRENT_UPLOADS

\* C2: once every transfer of the batch has come to rest (no stream event
\* and no response is outstanding, no continuation is queued), the promise of
\* bulkUpload has resolved: no worker is left waiting
C2_BulkUploadResolves ==
    (/\ upc = "bulk"
     /\ proc # "crashed"
     /\ ~MicroPending
     /\ \A f \in Files : calls[f] > 0 => Quiet(f))
        => FALSE

\* C3: once the signal is aborted no chunkUpload is started any more
C3_NoStartAfterAbort == [][aborted => calls' = calls]_vars

\* the pool has finished after an abort and left a filename unstarted
C3_Witness ==
    /\ PoolResolved
    /\ aborted
    /\ \E f \in Queue : calls[f] = 0

C5_OneTerminalOutcome ==
    \A f \in Files :
        /\ (calls[f] > 0 /\ Quiet(f)) => up[f].promise \in {"resolved", "rejected"}
        /\ emitted[f].success + emitted[f].error + emitted[f].critical <= calls[f]

\* number of chunks the stream cuts a file of the given size into
NumChunks(size) == (size + CHUNK_UPLOAD_SIZE - 1) \div CHUNK_UPLOAD_SIZE

\* C6: the requests of a file carry adjacent byte ranges in increasing order
\* from 0; a file read as k chunks gets exactly k requests and the end of the
\* last one is the file's size
C6_RangesCoverFile ==
    \A f \in Files :
        LET reqs == up[f].reqs IN
        /\ \A i \in 1..Len(reqs) :
              /\ reqs[i].start = (IF i = 1 THEN 0 ELSE reqs[i - 1].end)
              /\ reqs[i].start < reqs[i].end
              /\ reqs[i].end - reqs[i].start <= CHUNK_UPLOAD_SIZE
        /\ Len(reqs) <= NumChunks(up[f].size)
        /\ up[f].st = "ended" =>
              /\ Len(reqs) = NumChunks(up[f].size)
              /\ Len(reqs) > 0 => reqs[Len(reqs)].end = up[f].size

\* a file of three chunks, the last one short, has been read to its end
C6_Witness ==
    \E f \in Files :
        /\ up[f].st = "ended"
        /\ Len(up[f].reqs) = 3
        /\ up[f].size < 3 * CHUNK_UPLOAD_SIZE

\* C7: #isCriticalError answers non-critical exactly for a FileOpenError and
\* for a ServerResponseError of status 400, 404 or 409
C7_EscalationPredicate ==
    clsRes # "none" =>
        (clsRes = "noncritical" <=>
            \/ clsErr.kind = "FileOpenError"
            \/ clsErr.kind = "ServerResponseError" /\ clsErr.httpCode \in {400, 404, 409})

\* a 404 has been classified
C7_Witness ==
    /\ clsRes = "noncritical"
    /\ clsErr.kind = "ServerResponseError"
    /\ clsErr.httpCode = 404

\* the file whose error was reported as critical
CriticalFiles == {f \in Files : emitted[f].critical > 0}

\* the log file is being closed or is closed
CloseIssued == errorFileHandle # "null" /\ upc \in {"closing", "resolved"}

\* C8: when a transfer has ended with a fatal error and was reported, the
\* batch has exactly one critical notification and the signal is aborted; the
\* log file is closed only after the append of the critical entry completed
C8_CriticalOnceLoggedBeforeClose ==
    (\E f \in Files : EndedFatal(f) /\ Notified(f)) =>
        /\ Total("critical") = 1
        /\ aborted
        /\ CloseIssued =>
              \A f \in CriticalFiles : appends[f].issued = 1 /\ appends[f].done = 1

\* the log file has been closed in a batch that met a fatal error
C8_Witness ==
    /\ errorFileHandle = "closed"
    /\ Len(filterArr) > MAX_CONCURRENT_UPLOADS
    /\ \E f \in Files : EndedFatal(f) /\ emitted[f].critical = 1 /\ appends[f].done = 1

C10_AllValidAllSucceed ==
    (/\ ~ignoreFileExistCheck
     /\ \A f \in Files : verdict[f] = "valid" /\ pred[f] # "idle"
     /\ upc \in {"resolved", "rejected"})
        => /\ upc = "resolved"
           /\ \A f \in Files :
                 /\ emitted[f] = [success |-> 1, error |-> 0, critical |-> 0]
                 /\ appends[f].issued = 0

\* the predicate of f has got the validator's answer and acted on it
Judged(f) == pred[f] \notin {"idle", "validating"}

C12_ExistenceCheckDecides ==
    \A f \in Files :
        (verdict[f] = "valid" /\ ~ignoreFileExistCheck /\ Judged(f))
            => pred[f] \in {"kept", "dropped"}

\* C13: the log file is closed only when writeCount is 0 and every append
\* issued has completed; every logError call issues exactly one append (one
\* per error or critical notification) and none completes twice
C13_CloseAfterAllAppends ==
    /\ CloseIssued =>
          /\ writeCount = 0
          /\ \A f \in Files : Pending(f) = 0 /\ appends[f].done = appends[f].issued
    /\ \A f \in Files :
          /\ appends[f].done + appends[f].failed <= appends[f].issued
          /\ errorFileHandle \in {"open", "closed"} =>
                appends[f].issued = emitted[f].error + emitted[f].critical

\* the log file has been closed after two files were logged
C13_Witness ==
    /\ errorFileHandle = "closed"
    /\ \E f, g \in Files : f # g /\ appends[f].done = 1 /\ appends[g].done = 1

\* C14: upload() rejects only when the log file could not be opened
C14_RejectsOnlyOnLogOpen == upc = "rejected" => errorFileHandle = "unset"

\* C15: with no error file configured no log write is counted, no rejection
\* is left unhandled and upload() does not wait for a write to end
C15_NoLogFileStillReturns ==
    errorFileHandle = "null" =>
        /\ writeCount = 0
        /\ proc = "ok"
        /\ upc \notin {"waitEndWrite", "rejected"}

\* C16: a file has a success notification only if its chunkUpload resolved
\* (the callback then got response.data; after a rejection it gets null)
C16_SuccessOnlyIfResolved ==
    \A f \in Files : emitted[f].success > 0 => up[f].promise = "resolved"

\* C17: a transfer that ended in an error and was reported, without being
\* the critical one, has one error notification and no other; the batch has
\* at most one critical notification
C17_LateErrorStaysAnError ==
    /\ Total("critical") <= 1
    /\ \A f \in Files :
          (up[f].promise = "rejected" /\ Notified(f) /\ emitted[f].critical = 0)
              => emitted[f] = [success |-> 0, error |-> 1, critical |-> 0]

\* C18: the response that resolved chunkUpload is the one to the terminal
\* chunk, the request whose end is the size of the file
C18_ResolvedByTerminalChunk ==
    \A f \in Files :
        up[f].promise = "resolved" => up[f].reqs[up[f].by].end = up[f].size

\* C19: writeCount is never negative, and it is back to 0 once every append
\* issued has settled and no logError call is under way
C19_CounterReturnsToZero ==
    /\ writeCount >= 0
    /\ (\A f \in Files : Pending(f) = 0) => writeCount = 0

\* C20: when no append has failed, upload() waits for END_WRITE only while an
\* append whose completion will emit it is still in flight
C20_WaitHasAWriteToEndIt ==
    (upc = "waitEndWrite" /\ \A f \in Files : appends[f].failed = 0)
        => \E f \in Files : Pending(f) > 0

\* C21: the signal goes from unaborted to aborted at most once and never
\* back; the step that aborts it is the report of a fatal error as critical,
\* the only critical report of the batch, and no later step reports another
C21_AbortOnceOneWay ==
    [][/\ aborted => aborted'
       /\ (~aborted /\ aborted') =>
             /\ CriticalFiles = {}
             /\ \E f \in Files :
                   /\ CriticalFiles' = {f}
                   /\ EndedFatal(f)
                   /\ emitted'[f].critical = 1
       /\ ~aborted' => CriticalFiles' = {}
       /\ aborted =>
             \A f \in Files : emitted'[f].critical = emitted[f].critical]_vars

\* two transfers ended with a fatal error and were reported: one abort
C21_Witness ==
    /\ aborted
    /\ Total("critical") = 1
    /\ \E f, g \in Files :
          /\ f # g
          /\ EndedFatal(f) /\ Notified(f)
          /\ EndedFatal(g) /\ Notified(g)

\* files with a chunk request in flight
Transferring == {f \in Files : InFlight(f) # {}}

\* C22: when the promise of bulkUpload has resolved, every worker has left
\* its loop, no chunk request of the batch is in flight and no stream of the
\* batch is still being read
C22_ResolvedMeansAllSettled ==
    PoolResolved =>
        /\ \A w \in Workers : wpc[w] \in {"idle", "exited"}
        /\ Transferring = {}
        /\ \A f \in Files : up[f].st \notin {"opening", "flowing"}

\* C23: a file that was started and that no worker holds any more has been
\* reported to the callback and has no chunk request in flight; at most
\* min(cap, queue length) files have requests in flight at once
C23_NextFileAfterSettled ==
    /\ \A f \in Files :
          (calls[f] > 0 /\ \A w \in Workers : wfile[w] # f) =>
              (Notified(f) /\ InFlight(f) = {})
    /\ Cardinality(Transferring) <= Min(MAX_CONCURRENT_UPLOADS, Len(filterArr))

\* C24: every chunk request carries the actual size of the file as the total
\* of its Content-Range
C24_RangeTotalIsFileSize ==
    \A f \in Files :
        \A i \in 1..Len(up[f].reqs) : up[f].reqs[i].total = up[f].size

\* C26: when upload() has finished, resolved or rejected, the log file it
\* opened is not left open
C26_LogHandleClosed ==
    upc \in {"resolved", "rejected"} => errorFileHandle # "open"

\* C27: when a transfer has come to rest with its promise resolved, every
\* chunk request of the file got a successful response
C27_SuccessMeansEveryChunkOk ==
    \A f \in Files :
        (up[f].promise = "resolved" /\ Quiet(f)) =>
            \A i \in 1..Len(up[f].reqs) : up[f].reqs[i].st = "ok"

\* C25: two different files started in the same batch send their chunks
\* under different X-Unique-Upload-Id values, and every chunk request of a
\* file carries the value of its file
C25_SessionIdPerFile ==
    /\ \A f \in Files :
          \A i \in 1..Len(up[f].reqs) : up[f].reqs[i].uid = up[f].uid
    /\ \A f, g \in Files :
          (f # g /\ InFlight(f) # {} /\ InFlight(g) # {}) => up[f].uid # up[g].uid

====
